---------------------------- MODULE Spec2Model ----------------------------
(***************************************************************************)
(* Model of src/checkin.py (PiggyCellBot): account loading, token          *)
(* validation, the check-in retry loop, the per-pass orchestration and the *)
(* once/scheduler entry points.                                            *)
(*                                                                         *)
(* Strings are sequences of one-character strings so that startswith,      *)
(* lower, count, split and the "in" substring test are computed.           *)
(* Times are integers in minutes; datetime's representable range is        *)
(* scaled down to [MinTimestamp, MaxTimestamp].                            *)
(***************************************************************************)
EXTENDS Integers, Sequences, FiniteSets, TLC

(***************************************************************************)
(* Bounds of the model                                                     *)
(***************************************************************************)
MaxAccounts == 3
MaxRetryTimes == 2
MaxNow == 1
TickSeconds == 30
DayLen == 4
MaxDays == 2
PastRange == 2
FutureRange == 95

(***************************************************************************)
(* Program constants                                                       *)
(***************************************************************************)
ThirtyMinutes == 30
DefaultRetryDelay == 5
PauseMin == 2
PauseMax == 5
PollSeconds == 60

(***************************************************************************)
(* String helpers (str.startswith, str.lower, str.count, str.split, in)    *)
(***************************************************************************)
UpperAlphabet == <<"A","B","C","D","E","F","G","H","I","J","K","L","M",
                   "N","O","P","Q","R","S","T","U","V","W","X","Y","Z">>
LowerAlphabet == <<"a","b","c","d","e","f","g","h","i","j","k","l","m",
                   "n","o","p","q","r","s","t","u","v","w","x","y","z">>

LowerChar(c) ==
    IF \E i \in 1..Len(UpperAlphabet) : UpperAlphabet[i] = c
    THEN LowerAlphabet[CHOOSE i \in 1..Len(UpperAlphabet) : UpperAlphabet[i] = c]
    ELSE c

Lower(s) == [i \in 1..Len(s) |-> LowerChar(s[i])]

StartsWith(s, p) ==
    /\ Len(p) <= Len(s)
    /\ SubSeq(s, 1, Len(p)) = p

\* p in s
Contains(s, p) ==
    \E i \in 1..(Len(s) - Len(p) + 1) : SubSeq(s, i, i + Len(p) - 1) = p

Count(s, c) == Cardinality({i \in 1..Len(s) : s[i] = c})

RECURSIVE Split(_, _)
Split(s, c) ==
    IF \A i \in 1..Len(s) : s[i] # c
    THEN <<s>>
    ELSE LET k == CHOOSE i \in 1..Len(s) :
                      /\ s[i] = c
                      /\ \A j \in 1..(i - 1) : s[j] # c
         IN  <<SubSeq(s, 1, k - 1)>> \o Split(SubSeq(s, k + 1, Len(s)), c)

(***************************************************************************)
(* Literals of the source.  Tokens are sequences of characters; response   *)
(* bodies are sequences of words (the phrases contain no other separator). *)
(***************************************************************************)
YOUR == <<"y","o","u","r">>
SESSION_TOKEN == <<"s","e","s","s","i","o","n","_","t","o","k","e","n">>
DOT == "."

already_checked_phrases ==
    << <<"Already", "checked", "in", "today">>,
       <<"already", "checked", "in", "today">>,
       <<"Already", "checked", "in">>,
       <<"already", "checked", "in">> >>

(***************************************************************************)
(* Session tokens.  text is the token string; payload is what              *)
(* base64.b64decode(parts[1] + padding) followed by json.loads yields for  *)
(* that token (an input of the model: the library calls are not            *)
(* re-implemented).                                                        *)
(*   b64_error     binascii.Error                                          *)
(*   json_error    json.JSONDecodeError                                    *)
(*   unicode_error UnicodeDecodeError from json.loads on non-UTF-8 bytes   *)
(*   scalar        a JSON number or null: "'exp' in token_data" raises     *)
(*   no_exp        a JSON object without the key exp                       *)
(*   exp           a JSON object with an integer exp                       *)
(***************************************************************************)
NoPayload == [kind |-> "none", exp |-> 0]

\* datetime.fromtimestamp raises outside [MinTimestamp, MaxTimestamp]
MinTimestamp == 0 - PastRange
MaxTimestamp == FutureRange

ExpSet == {MinTimestamp - 1, 0, ThirtyMinutes, ThirtyMinutes + 1,
           ThirtyMinutes + 2, MaxTimestamp, MaxTimestamp + 1}

JwtPayloads ==
    {[kind |-> k, exp |-> 0] :
        k \in {"b64_error", "json_error", "unicode_error", "scalar", "no_exp"}}
    \cup {[kind |-> "exp", exp |-> e] : e \in ExpSet}

TxtEmpty == <<>>
TxtYour == YOUR \o <<"_", "x">>
TxtYourCap == <<"Y", "o", "u", "r">>
TxtSessUpper == <<"m", "y", "_", "S", "E", "S", "S", "I", "O", "N", "_",
                  "T", "O", "K", "E", "N">>
TxtOneDot == <<"h", ".", "p">>
TxtOpaque == <<"a", "b", "c">>
TxtJwt == <<"h", ".", "p", ".", "s">>
TxtJwtYour == YOUR \o <<".", "p", ".", "s">>
TxtFourSeg == <<"h", ".", "p", ".", "s", ".", "x">>

\* tokens of the single-account configurations
RichTokens ==
    {[text |-> t, payload |-> NoPayload] :
        t \in {TxtEmpty, TxtYour, TxtYourCap, TxtSessUpper, TxtOneDot, TxtOpaque}}
    \cup {[text |-> t, payload |-> p] : t \in {TxtJwt, TxtJwtYour}, p \in JwtPayloads}
    \cup {[text |-> TxtFourSeg, payload |-> [kind |-> "no_exp", exp |-> 0]]}

\* tokens of the multi-account configurations
BasicTokens ==
    {[text |-> TxtYour, payload |-> NoPayload],
     [text |-> TxtOpaque, payload |-> NoPayload]}

(***************************************************************************)
(* Time zones of the host: utcoffset before and after a transition.        *)
(* datetime.fromtimestamp and datetime.now both give naive local times.    *)
(***************************************************************************)
OneHour == 2 * ThirtyMinutes
FixedZone == [name |-> "fixed", before |-> 0, after |-> 0, at |-> 0]
TimeZones ==
    {FixedZone,
     [name |-> "fall_back", before |-> OneHour, after |-> 0, at |-> MaxNow + 1],
     [name |-> "spring_forward", before |-> 0, after |-> OneHour, at |-> MaxNow + 1]}

NowSet == 0..MaxNow

\* utcoffset of instant t in zone tz
UtcOffset(tz, t) == IF t < tz.at THEN tz.before ELSE tz.after

\* naive local datetime of epoch instant t
LocalTime(tz, t) == t + UtcOffset(tz, t)

(***************************************************************************)
(* check_token_validity up to the live probe                               *)
(***************************************************************************)
\* variant: the 'session_token' marker is matched case-sensitively
IsPlaceholder_CaseSensitive(session_token) ==
    \/ Len(session_token) = 0
    \/ StartsWith(session_token, YOUR)
    \/ Contains(session_token, SESSION_TOKEN)

\* line 161
IsPlaceholder(session_token) ==
    \/ Len(session_token) = 0
    \/ StartsWith(session_token, YOUR)
    \/ Contains(Lower(session_token), SESSION_TOKEN)

\* line 166
HasJwtShape(session_token) ==
    /\ Contains(session_token, <<DOT>>)
    /\ Count(session_token, DOT) >= 2

\* datetime.fromtimestamp(exp_timestamp) raises (ValueError, OverflowError)
FromTimestampRaises(exp_timestamp) ==
    \/ exp_timestamp < MinTimestamp
    \/ exp_timestamp > MaxTimestamp

\* lines 176-191: the verdict from the decoded payload
ExpiryCheck(token_data, now, tz) ==
    IF token_data.kind = "exp"
    THEN IF FromTimestampRaises(token_data.exp)
         THEN [v |-> "accept", why |-> "exception"]
         ELSE LET exp_datetime == LocalTime(tz, token_data.exp)
                  current_time == LocalTime(tz, now)
              IN  IF exp_datetime <= current_time + ThirtyMinutes
                  THEN [v |-> "reject", why |-> "expiring"]
                  ELSE [v |-> "accept", why |-> "remaining"]
    ELSE [v |-> "accept", why |-> "no_expiry"]

\* lines 157-200 without the probe: "reject", "accept" or "probe"
TokenCheck(token, now, tz) ==
    IF IsPlaceholder(token.text)
    THEN [v |-> "reject", why |-> "placeholder"]
    ELSE IF HasJwtShape(token.text)
         THEN LET parts == Split(token.text, DOT)
              IN  IF Len(parts) >= 2
                  THEN CASE token.payload.kind \in {"b64_error", "json_error"}
                              -> [v |-> "probe", why |-> "decode_failed"]
                         [] token.payload.kind \in {"unicode_error", "scalar"}
                              -> [v |-> "accept", why |-> "exception"]
                         [] OTHER -> ExpiryCheck(token.payload, now, tz)
                  ELSE [v |-> "reject", why |-> "no_return"]
         ELSE [v |-> "probe", why |-> "no_jwt_shape"]

\* whether TokenCheck reaches the expiry comparison (lines 177-181)
ReadsClock(token) ==
    /\ ~IsPlaceholder(token.text)
    /\ HasJwtShape(token.text)
    /\ token.payload.kind = "exp"

(***************************************************************************)
(* test_token_with_api: outcomes of the probe GET                          *)
(*   build_error      an exception before session.get (no request sent)    *)
(*   transport_error  session.get raises                                   *)
(*   response         a response with a status code                        *)
(***************************************************************************)
StatusSet == {200, 204, 403, 500}

ProbeOutcomes ==
    {[kind |-> "build_error", status |-> 0],
     [kind |-> "transport_error", status |-> 0]}
    \cup {[kind |-> "response", status |-> st] : st \in StatusSet}

\* variant: an exception of the probe counts as an invalid token
test_token_with_api_FailClosed(probe) ==
    probe.kind = "response" /\ probe.status = 200

\* lines 202-233: the returned verdict
test_token_with_api(probe) ==
    IF probe.kind = "response" THEN probe.status = 200 ELSE TRUE

\* whether the GET of line 217 was sent
ProbeSent(probe) == probe.kind # "build_error"

\* the wall clock and the zone of the host when the expiry is examined
NoClock == [read |-> FALSE, now |-> 0, tz |-> "none"]
NoProbe == [kind |-> "none", status |-> 0]

\* lines 155-200: verdict, reason, the probe made and the clock read
check_token_validity(token, now, tz, probe) ==
    LET c == TokenCheck(token, now, tz)
    IN  [verdict |-> IF c.v = "probe" THEN test_token_with_api(probe)
                     ELSE c.v = "accept",
         why     |-> c.why,
         probe   |-> IF c.v = "probe" THEN probe ELSE NoProbe,
         clock   |-> IF ReadsClock(token)
                     THEN [read |-> TRUE, now |-> now, tz |-> tz.name]
                     ELSE NoClock]

(***************************************************************************)
(* The headers and the proxy of a request (lines 205-213 and 246-259).     *)
(* A header set maps each key to its value, << >> for a key that is not    *)
(* set; the cookie is the session token of the account.                    *)
(***************************************************************************)
BaseHeaders ==
    [accept |-> <<"application/json">>, user_agent |-> << >>, cookie |-> << >>]

ProxyPool == <<"http://proxy-a:8080">>

NoProxy == [http |-> "none", https |-> "none"]
NoRequest == [sent |-> FALSE, headers |-> BaseHeaders, proxy |-> NoProxy]

\* lines 140-153: what get_random_user_agent may return (one string stands
\* for them all: no code looks into it)
UserAgents == {"Mozilla/5.0"}

\* lines 128-137: the proxies get_random_proxy may return
get_random_proxy(pool) ==
    IF Len(pool) = 0
    THEN {NoProxy}
    ELSE {[http |-> pool[i], https |-> pool[i]] : i \in 1..Len(pool)}

\* lines 208-211 and 250-254
Cookie(account) == account.session_token.text

\* variant: the headers are set on self.config['headers'] itself
RequestHeaders_NoCopy(base, user_agent, cookie) ==
    LET h == [base EXCEPT !.user_agent = <<user_agent>>, !.cookie = cookie]
    IN  [base |-> h, sent |-> h]

\* lines 205-211 and 246-254: the headers of a request are a copy of the
\* base set with user-agent and cookie set; base is what
\* self.config['headers'] is afterwards
RequestHeaders(base, user_agent, cookie) ==
    [base |-> base,
     sent |-> [base EXCEPT !.user_agent = <<user_agent>>, !.cookie = cookie]]

(***************************************************************************)
(* Check-in POST: outcomes of one attempt and the response classification  *)
(*   build_error      an exception before session.post (no request sent)   *)
(*   transport_error  requests.exceptions.RequestException from the POST   *)
(*   other_error      any other exception from the POST                    *)
(*   response         a response with status and body; body.json says      *)
(*                    whether response.json() parses it                     *)
(***************************************************************************)
BodyTexts ==
    {<<"Already", "checked", "in", "today">>,
     <<"you", "already", "checked", "in">>,
     <<"ALREADY", "checked", "in">>,
     <<"checked", "in">>,
     <<"ok">>}

Bodies == {[json |-> j, text |-> t] : j \in BOOLEAN, t \in BodyTexts}
NoBody == [json |-> FALSE, text |-> <<>>]

PostOutcomes ==
    {[kind |-> k, status |-> 0, body |-> NoBody] :
        k \in {"build_error", "transport_error", "other_error"}}
    \cup {[kind |-> "response", status |-> 200, body |-> b] : b \in Bodies}
    \cup {[kind |-> "response", status |-> st, body |-> NoBody] :
            st \in StatusSet \ {200}}

\* str(response_data) of the parsed JSON (line 290)
Str(response_data) == <<"{", "'message':">> \o response_data \o <<"}">>

\* lines 289-305
already_checked(response_text) ==
    \E i \in 1..Len(already_checked_phrases) :
        Contains(response_text, already_checked_phrases[i])

\* variant: only the two "... today" phrases are looked for
Classify_TodayOnly(body) ==
    IF body.json
    THEN IF \E i \in 1..2 : Contains(Str(body.text), already_checked_phrases[i])
         THEN "already"
         ELSE "successful"
    ELSE "successful"

\* lines 286-316: the classification logged for a 200 response
Classify(body) ==
    IF body.json
    THEN IF already_checked(Str(body.text)) THEN "already" ELSE "successful"
    ELSE "successful"

(***************************************************************************)
(* Configuration files                                                     *)
(***************************************************************************)
\* a record of config/checkin-acc.json; keys_ok is FALSE when the record
\* lacks 'name' or 'session_token'
FileRecord(n, tok, en, ok) ==
    [name |-> n, session_token |-> tok, enabled |-> en, keys_ok |-> ok]

PlainToken == [text |-> TxtOpaque, payload |-> NoPayload]

RecordChoices(n, tokens) ==
    {FileRecord(n, tok, TRUE, TRUE) : tok \in tokens}
    \cup {FileRecord(n, PlainToken, FALSE, TRUE)}

\* the account lists of length len over tokens
RECURSIVE FilesOfLen(_, _)
FilesOfLen(len, tokens) ==
    IF len = 0
    THEN {<< >>}
    ELSE {Append(f, r) : f \in FilesOfLen(len - 1, tokens),
                         r \in RecordChoices(len, tokens)}

AccountFiles ==
    {[exists |-> TRUE, accounts |-> f] :
        f \in UNION {FilesOfLen(len, BasicTokens) : len \in 0..MaxAccounts}}
    \cup {[exists |-> TRUE, accounts |-> <<FileRecord(1, tok, TRUE, TRUE)>>] :
            tok \in RichTokens}
    \cup {[exists |-> TRUE,
           accounts |-> <<FileRecord(1, PlainToken, TRUE, TRUE),
                          FileRecord(2, PlainToken, TRUE, FALSE)>>],
          [exists |-> FALSE, accounts |-> << >>]}

\* variant: the enabled flag is not consulted
load_accounts_all(file) ==
    IF ~file.exists
    THEN << >>
    ELSE IF \E i \in 1..Len(file.accounts) : ~file.accounts[i].keys_ok
         THEN << >>
         ELSE [k \in 1..Len(file.accounts) |->
                  [name |-> file.accounts[k].name,
                   session_token |-> file.accounts[k].session_token]]

\* lines 50-74
load_accounts(file) ==
    IF ~file.exists
    THEN << >>
    ELSE IF \E i \in 1..Len(file.accounts) :
                file.accounts[i].enabled /\ ~file.accounts[i].keys_ok
         THEN << >>
         ELSE LET enabled == SelectSeq(file.accounts, LAMBDA a : a.enabled)
              IN  [k \in 1..Len(enabled) |->
                      [name |-> enabled[k].name,
                       session_token |-> enabled[k].session_token]]

RetryDelays == {0 - 1, DefaultRetryDelay}
RetryTimes == 0..MaxRetryTimes
\* variant: random.uniform(1, 5)
PauseDurations_FromOne == {1, PauseMax}

\* random.uniform(2, 5) of line 353: the two ends of the interval
PauseDurations == {PauseMin, PauseMax}

(***************************************************************************)
(* The wall clock of the scheduler, in ticks of TickSeconds seconds; a day *)
(* is scaled down to DayLen ticks and the run ends with day MaxDays.       *)
(* sign_in_time is the tick of the day of config 'sign_in_time'.           *)
(***************************************************************************)
\* time.sleep(60) of line 372, in ticks
PollInterval == PollSeconds \div TickSeconds

\* the last instant of the run
MaxClock == MaxDays * DayLen - 1

TimeOfDay(t) == t % DayLen
SignInTimes == 0..(DayLen - 1)
StartTimes == 0..(DayLen - 1)
NotYet == 0 - 1

\* variant: the run of today is kept although its time is the present instant
ScheduleNextRun_TodayAgain(t, at_time, last) ==
    LET tomorrow == (t + DayLen) - TimeOfDay(t + DayLen) + at_time
    IN  IF at_time >= TimeOfDay(t) THEN tomorrow - DayLen ELSE tomorrow

\* schedule.Job._schedule_next_run of every().day.at(at_time), called at
\* instant t by do() (last = NotYet) and by Job.run after the job returned
\* (last = t): (now + 1 day) with the time of day replaced by at_time, and
\* one day less when no run happened yet or the gap to the last run exceeds
\* a day, and at_time is still ahead today
ScheduleNextRun(t, at_time, last) ==
    LET tomorrow == (t + DayLen) - TimeOfDay(t + DayLen) + at_time
    IN  IF (last = NotYet \/ tomorrow - last > DayLen) /\ at_time > TimeOfDay(t)
        THEN tomorrow - DayLen
        ELSE tomorrow

\* the time a pass can take before the run ends
Elapsed(t) == 0..(MaxClock - t)

(***************************************************************************)
(* State                                                                   *)
(***************************************************************************)
VARIABLES
    argv_once,      \* sys.argv[1] == '--once'
    accounts_file,  \* config/checkin-acc.json as read at construction
    accounts,       \* self.accounts
    retry_times,    \* self.config.get('retry_times', 3)
    retry_delay,    \* self.config.get('retry_delay', 5)
    sign_in_time,   \* self.config.get('sign_in_time', '09:00')
    wall_clock,     \* datetime.now() as the schedule library reads it
    next_run,       \* next_run of the registered job
    last_run,       \* last_run of the registered job
    headers,        \* self.config['headers']
    proxies,        \* self.proxies
    last_request,   \* headers and proxy of the last request sent, current
                    \* account
    pass_log,       \* the passes so far: caller, start, the instant the run
                    \* was due, end
    pc,             \* position of the process
    caller,         \* who called sign_in_all_accounts
    idx,            \* position of the for loop of sign_in_all_accounts
    attempt,        \* loop variable of sign_in
    success_count,  \* local of sign_in_all_accounts
    jobs,           \* number of jobs registered with schedule
    passes,         \* calls of sign_in_all_accounts so far
    idle_polls,     \* polls of the scheduler loop since the last pass
    processed,      \* names of the accounts sign_in was called for, this pass
    req_order,      \* names of the accounts HTTP requests were sent for, this
                    \* pass, in order, consecutive repetitions dropped
    returned_true,  \* number of sign_in calls that returned True, this pass
    pauses,         \* inter-account sleeps, this pass
    last_pause,     \* duration of the sleep just made
    warned,         \* "No accounts found" logged, this pass
    summary,        \* the "success: s/t" lines logged, this pass
    validation,     \* result of check_token_validity, current account
    validations,    \* calls of check_token_validity, current account
    posts,          \* session.post calls, current account
    slept,          \* retry sleeps made, current account
    classes,        \* classifications logged, current account
    last_post,      \* outcome of the last attempt, current account
    result          \* what sign_in returned, current account

config == <<argv_once, accounts_file, accounts, retry_times, retry_delay,
            sign_in_time>>
shared == <<headers, proxies>>
sched == <<wall_clock, next_run, last_run, pass_log>>
control == <<pc, caller, idx, attempt, success_count, jobs>>
pass_obs == <<passes, idle_polls, processed, req_order, returned_true, pauses,
              last_pause, warned, summary>>
account_obs == <<validation, validations, posts, slept, classes, last_post,
                 last_request, result>>
vars == <<config, shared, control, sched, pass_obs, account_obs>>

NoValidation ==
    [verdict |-> FALSE, why |-> "none", probe |-> NoProbe, clock |-> NoClock]
NoPost == [kind |-> "none", status |-> 0, body |-> NoBody]

\* PiggyCellBot.__init__ (lines 29-36) and the start of main, for the given
\* command lines, account files, configurations and starting times
InitWith(onces, files, retries, delays, times, starts) ==
    /\ argv_once \in onces
    /\ accounts_file \in files
    /\ accounts = load_accounts(accounts_file)
    /\ retry_times \in retries
    /\ retry_delay \in delays
    /\ sign_in_time \in times
    /\ wall_clock \in starts
    /\ headers = BaseHeaders
    /\ proxies = ProxyPool
    /\ last_request = NoRequest
    /\ next_run = NotYet
    /\ last_run = NotYet
    /\ pass_log = << >>
    /\ pc = "main"
    /\ caller = "none"
    /\ idx = 0
    /\ attempt = 0
    /\ success_count = 0
    /\ jobs = 0
    /\ passes = 0
    /\ idle_polls = 0
    /\ processed = << >>
    /\ req_order = << >>
    /\ returned_true = 0
    /\ pauses = 0
    /\ last_pause = 0
    /\ warned = FALSE
    /\ summary = << >>
    /\ validation = NoValidation
    /\ validations = 0
    /\ posts = 0
    /\ slept = << >>
    /\ classes = << >>
    /\ last_post = NoPost
    /\ result = "none"

\* every configuration, started one poll before the last instant of the run
\* with the daily run due at that instant
Init ==
    InitWith(BOOLEAN, AccountFiles, RetryTimes, RetryDelays,
             {TimeOfDay(MaxClock)}, {MaxClock - PollInterval})

\* one account with a decodable token, started in scheduler mode at any time
\* of the first day with any sign_in_time
SchedInit ==
    InitWith({FALSE},
             {[exists |-> TRUE,
               accounts |-> <<FileRecord(1, [text |-> TxtJwt,
                                             payload |-> [kind |-> "no_exp",
                                                          exp |-> 0]],
                                         TRUE, TRUE)>>]},
             {MaxRetryTimes}, RetryDelays, SignInTimes, StartTimes)

(***************************************************************************)
(* sign_in                                                                 *)
(***************************************************************************)
\* variant: the verdict of the validator is not consulted
SignInEntry_IgnoreVerdict(verdict, n) ==
    IF n <= 0 THEN "return_false" ELSE "attempt"

\* lines 237-245: what sign_in does once the token is assessed
SignInEntry(verdict, n) ==
    IF ~verdict
    THEN "return_false"
    ELSE IF n <= 0 THEN "return_false" ELSE "attempt"

\* whether session.post (line 277) was called
PostSent(outcome) == outcome.kind # "build_error"

\* variant: a non-200 status is retried like a transport failure
AttemptResult_RetryOnStatus(outcome, att, n) ==
    CASE outcome.kind = "response" /\ outcome.status = 200 -> "return_true"
      [] outcome.kind \in {"response", "transport_error"} ->
            IF att < n - 1 THEN "sleep_retry" ELSE "return_false"
      [] OTHER -> "return_false"

\* variant: every 2xx status counts as success
AttemptResult_Any2xx(outcome, att, n) ==
    CASE outcome.kind = "response" ->
            IF outcome.status \in {200, 204} THEN "return_true" ELSE "return_false"
      [] outcome.kind = "transport_error" ->
            IF att < n - 1 THEN "sleep_retry" ELSE "return_false"
      [] OTHER -> "return_false"

\* variant: the loop makes one attempt more than retry_times
AttemptResult_OneMore(outcome, att, n) ==
    CASE outcome.kind = "response" ->
            IF outcome.status = 200 THEN "return_true" ELSE "return_false"
      [] outcome.kind = "transport_error" ->
            IF att < n THEN "sleep_retry" ELSE "return_false"
      [] OTHER -> "return_false"

\* variant: every exception of an attempt is retried
AttemptResult_RetryOnAny(outcome, att, n) ==
    CASE outcome.kind = "response" ->
            IF outcome.status = 200 THEN "return_true" ELSE "return_false"
      [] OTHER -> IF att < n - 1 THEN "sleep_retry" ELSE "return_false"

\* lines 285-336: how one attempt ends
AttemptResult(outcome, att, n) ==
    CASE outcome.kind = "response" ->
            IF outcome.status = 200 THEN "return_true" ELSE "return_false"
      [] outcome.kind = "transport_error" ->
            IF att < n - 1 THEN "sleep_retry" ELSE "return_false"
      [] OTHER -> "return_false"

\* time.sleep raises ValueError for a negative length
SleepRaises(seconds) == seconds < 0

\* variant: every processed account is counted
Counted_Always(count, ok) == count + 1

\* lines 350-351
Counted(count, ok) == IF ok THEN count + 1 ELSE count

\* sign_in returns ok to the loop of sign_in_all_accounts (lines 350-351)
Return(ok) ==
    /\ result' = (IF ok THEN "true" ELSE "false")
    /\ success_count' = Counted(success_count, ok)
    /\ returned_true' = (IF ok THEN returned_true + 1 ELSE returned_true)
    /\ pc' = "pause"

ClockGone == validation' = [validation EXCEPT !.clock = NoClock]

\* an HTTP request is sent with the cookie of account name
Requested(order, name) ==
    IF Len(order) > 0 /\ order[Len(order)] = name
    THEN order
    ELSE Append(order, name)

\* the user agents and proxies drawn when the probe is made
UserAgentReads(token) ==
    IF TokenCheck(token, 0, FixedZone).v = "probe" THEN UserAgents ELSE {"none"}
ProxyReads(token, pool) ==
    IF TokenCheck(token, 0, FixedZone).v = "probe"
    THEN get_random_proxy(pool)
    ELSE {NoProxy}

\* the clock, time zone and probe outcomes check_token_validity consults
ClockReads(token) == IF ReadsClock(token) THEN NowSet ELSE {0}
ZoneReads(token) == IF ReadsClock(token) THEN TimeZones ELSE {FixedZone}
ProbeReads(token) ==
    IF TokenCheck(token, 0, FixedZone).v = "probe"
    THEN ProbeOutcomes
    ELSE {NoProbe}

\* lines 235-245: sign_in is called for accounts[idx]; the token is assessed
SignIn ==
    /\ pc = "sign_in"
    /\ LET account == accounts[idx]
           token == account.session_token
       IN  \E now \in ClockReads(token), tz \in ZoneReads(token),
              probe \in ProbeReads(token),
              user_agent \in UserAgentReads(token),
              proxy \in ProxyReads(token, proxies) :
              LET val == check_token_validity(token, now, tz, probe)
                  probed == val.probe.kind # "none"
                  built == RequestHeaders(headers, user_agent, Cookie(account))
              IN  /\ validation' = val
                  /\ headers' = (IF probed THEN built.base ELSE headers)
                  /\ last_request' =
                        (IF probed /\ ProbeSent(val.probe)
                         THEN [sent |-> TRUE, headers |-> built.sent,
                               proxy |-> proxy]
                         ELSE NoRequest)
                  /\ validations' = validations + 1
                  /\ processed' = Append(processed, account.name)
                  /\ req_order' = (IF val.probe.kind # "none" /\ ProbeSent(val.probe)
                                   THEN Requested(req_order, account.name)
                                   ELSE req_order)
                  /\ IF SignInEntry(val.verdict, retry_times) = "return_false"
                     THEN Return(FALSE)
                     ELSE /\ pc' = "attempt"
                          /\ result' = "none"
                          /\ UNCHANGED <<success_count, returned_true>>
    /\ attempt' = 0
    /\ posts' = 0
    /\ slept' = << >>
    /\ classes' = << >>
    /\ last_post' = NoPost
    /\ last_pause' = 0
    /\ UNCHANGED <<config, proxies, sched, caller, idx, jobs, passes,
                   idle_polls, pauses, warned, summary>>

\* lines 245-336: one iteration of the retry loop
Attempt ==
    /\ pc = "attempt"
    /\ \E outcome \in PostOutcomes, user_agent \in UserAgents,
          proxy \in get_random_proxy(proxies) :
          /\ last_post' = outcome
          /\ LET built == RequestHeaders(headers, user_agent,
                                         Cookie(accounts[idx]))
             IN  /\ headers' = built.base
                 /\ last_request' =
                       (IF PostSent(outcome)
                        THEN [sent |-> TRUE, headers |-> built.sent,
                              proxy |-> proxy]
                        ELSE last_request)
          /\ posts' = (IF PostSent(outcome) THEN posts + 1 ELSE posts)
          /\ req_order' = (IF PostSent(outcome)
                           THEN Requested(req_order, accounts[idx].name)
                           ELSE req_order)
          /\ classes' = (IF outcome.kind = "response" /\ outcome.status = 200
                         THEN Append(classes, Classify(outcome.body))
                         ELSE classes)
          /\ LET r == AttemptResult(outcome, attempt, retry_times)
             IN  CASE r = "return_true" -> Return(TRUE)
                   [] r = "return_false" -> Return(FALSE)
                   [] OTHER -> /\ pc' = "retry_sleep"
                               /\ UNCHANGED <<result, success_count, returned_true>>
    /\ ClockGone
    /\ UNCHANGED <<config, proxies, sched, caller, idx, attempt, jobs, passes,
                   validations,
                   idle_polls, processed, pauses, last_pause, warned, summary,
                   slept>>

\* variant: the token is assessed again before the next attempt
ValidationsOnRetry_Again(count) == count + 1

\* line 330: continue goes back to the for of line 244, below the call of
\* check_token_validity of line 237
ValidationsOnRetry(count) == count

\* lines 329-330: time.sleep(retry_delay); continue
RetrySleep ==
    /\ pc = "retry_sleep"
    /\ IF SleepRaises(retry_delay)
       THEN /\ pc' = "crashed"
            /\ result' = "raised"
            /\ UNCHANGED <<attempt, slept, validations>>
       ELSE /\ slept' = Append(slept, retry_delay)
            /\ attempt' = attempt + 1
            /\ validations' = ValidationsOnRetry(validations)
            /\ pc' = "attempt"
            /\ UNCHANGED result
    /\ UNCHANGED <<config, shared, sched, caller, idx, success_count, jobs, pass_obs,
                   validation, posts, classes, last_post, last_request>>

(***************************************************************************)
(* sign_in_all_accounts                                                    *)
(***************************************************************************)
\* where the process goes when sign_in_all_accounts returns
AfterPass(who) ==
    CASE who = "once" -> "exit"
      [] who = "immediate" -> "register"
      [] OTHER -> "job_done"

\* variant: the empty list is not special-cased
PassEntry_NoGuard(accts) == "loop"

\* line 342
PassEntry(accts) == IF Len(accts) = 0 THEN "warn" ELSE "loop"

\* line 355
SummaryLine(count, accts) == [s |-> count, t |-> Len(accts)]

\* lines 340-349: entry of a pass
SignInAllAccounts ==
    /\ pc = "pass"
    /\ passes' = passes + 1
    /\ pass_log' = Append(pass_log,
                          [who |-> caller, at |-> wall_clock,
                           due |-> IF caller = "scheduled" THEN next_run
                                   ELSE wall_clock,
                           end |-> NotYet])
    /\ idle_polls' = 0
    /\ processed' = << >>
    /\ req_order' = << >>
    /\ returned_true' = 0
    /\ pauses' = 0
    /\ last_pause' = 0
    /\ summary' = << >>
    /\ IF PassEntry(accounts) = "warn"
       THEN /\ warned' = TRUE
            /\ pc' = AfterPass(caller)
            /\ UNCHANGED <<idx, success_count>>
       ELSE /\ warned' = FALSE
            /\ success_count' = 0
            /\ IF Len(accounts) = 0
               THEN pc' = "summary" /\ idx' = 0
               ELSE pc' = "sign_in" /\ idx' = 1
    /\ validation' = NoValidation
    /\ validations' = 0
    /\ last_request' = NoRequest
    /\ posts' = 0
    /\ slept' = << >>
    /\ classes' = << >>
    /\ last_post' = NoPost
    /\ result' = "none"
    /\ UNCHANGED <<config, shared, caller, attempt, jobs, wall_clock, next_run,
                   last_run>>

\* the next position of the for loop of line 349
NextIndex(i) == i + 1

\* line 353 and the loop of line 349; the frame of sign_in is gone
Pause ==
    /\ pc = "pause"
    /\ \E d \in PauseDurations : last_pause' = d
    /\ pauses' = pauses + 1
    /\ IF NextIndex(idx) <= Len(accounts)
       THEN pc' = "sign_in" /\ idx' = NextIndex(idx)
       ELSE pc' = "summary" /\ idx' = idx
    /\ validation' = NoValidation
    /\ validations' = 0
    /\ last_request' = NoRequest
    /\ posts' = 0
    /\ slept' = << >>
    /\ classes' = << >>
    /\ last_post' = NoPost
    /\ result' = "none"
    /\ attempt' = 0
    /\ UNCHANGED <<config, shared, sched, caller, success_count, jobs, passes,
                   idle_polls, processed, req_order, returned_true, warned,
                   summary>>

\* line 355
Summary ==
    /\ pc = "summary"
    /\ summary' = Append(summary, SummaryLine(success_count, accounts))
    /\ pc' = AfterPass(caller)
    /\ last_pause' = 0
    /\ UNCHANGED <<config, shared, sched, caller, idx, attempt, success_count, jobs,
                   passes, idle_polls, processed, req_order, returned_true,
                   pauses, warned, account_obs>>

(***************************************************************************)
(* main, run_once, run_scheduler                                           *)
(***************************************************************************)
\* lines 380-387, 376-378, 359-362
Main ==
    /\ pc = "main"
    /\ caller' = (IF argv_once THEN "once" ELSE "immediate")
    /\ pc' = "pass"
    /\ UNCHANGED <<config, shared, sched, idx, attempt, success_count, jobs, pass_obs,
                   account_obs>>

\* the pass that just returned ended at instant t
PassEnded(log, t) == [log EXCEPT ![Len(log)].end = t]

\* line 364, reached when the immediate pass has returned
Register ==
    /\ pc = "register"
    /\ \E d \in Elapsed(wall_clock) :
          /\ wall_clock' = wall_clock + d
          /\ next_run' = ScheduleNextRun(wall_clock', sign_in_time, last_run)
          /\ pass_log' = PassEnded(pass_log, wall_clock')
    /\ jobs' = jobs + 1
    /\ pc' = "sched_loop"
    /\ UNCHANGED <<config, shared, caller, idx, attempt, success_count, last_run,
                   pass_obs, account_obs>>

\* schedule.Job.should_run
ShouldRun(t, next) == t >= next

\* line 371: run_pending calls sign_in_all_accounts when the job is due
RunPending ==
    /\ pc = "sched_loop"
    /\ IF jobs > 0 /\ ShouldRun(wall_clock, next_run)
       THEN /\ caller' = "scheduled"
            /\ pc' = "pass"
       ELSE /\ pc' = "sched_sleep"
            /\ UNCHANGED caller
    /\ UNCHANGED <<config, shared, sched, idx, attempt, success_count, jobs, pass_obs,
                   account_obs>>

\* line 371, schedule.Job.run after the job returned: last_run and next_run
JobDone ==
    /\ pc = "job_done"
    /\ \E d \in Elapsed(wall_clock) :
          /\ wall_clock' = wall_clock + d
          /\ last_run' = wall_clock'
          /\ next_run' = ScheduleNextRun(wall_clock', sign_in_time, last_run')
          /\ pass_log' = PassEnded(pass_log, wall_clock')
    /\ pc' = "sched_sleep"
    /\ UNCHANGED <<config, shared, caller, idx, attempt, success_count, jobs, pass_obs,
                   account_obs>>

\* line 372: time.sleep(60)
PollSleep ==
    /\ pc = "sched_sleep"
    /\ wall_clock + PollInterval <= MaxClock
    /\ wall_clock' = wall_clock + PollInterval
    /\ idle_polls' = idle_polls + 1
    /\ pc' = "sched_loop"
    /\ UNCHANGED <<config, shared, caller, idx, attempt, success_count, jobs, next_run,
                   last_run, pass_log, passes, processed, req_order,
                   returned_true, pauses, last_pause, warned, summary,
                   account_obs>>

\* lines 373-374
Interrupt ==
    /\ pc \in {"sched_loop", "sched_sleep"}
    /\ pc' = "exit"
    /\ UNCHANGED <<config, shared, sched, caller, idx, attempt, success_count, jobs,
                   pass_obs, account_obs>>

Next ==
    \/ Main
    \/ SignInAllAccounts
    \/ SignIn
    \/ Attempt
    \/ RetrySleep
    \/ Pause
    \/ Summary
    \/ Register
    \/ RunPending
    \/ JobDone
    \/ PollSleep
    \/ Interrupt

Spec == Init /\ [][Next]_vars

SchedSpec == SchedInit /\ [][Next]_vars

\* the steps of a pass: each HTTP call returns or raises and each sleep ends
PassStep ==
    \/ SignInAllAccounts
    \/ SignIn
    \/ Attempt
    \/ RetrySleep
    \/ Pause
    \/ Summary

\* the configurations of Init with one account less at most
PassInit ==
    InitWith(BOOLEAN,
             {f \in AccountFiles : Len(f.accounts) <= MaxAccounts - 1},
             RetryTimes, RetryDelays,
             {TimeOfDay(MaxClock)}, {MaxClock - PollInterval})

FairSpec == PassInit /\ [][Next]_vars /\ WF_vars(PassStep)

(***************************************************************************)
(* Properties                                                              *)
(***************************************************************************)
Is200(o) == o.kind = "response" /\ o.status = 200
IsNon200(o) == o.kind = "response" /\ o.status # 200

\* a sign_in call for accounts[idx] is in progress or has just returned
InSignIn == validation.why # "none"

CurrentToken == accounts[idx].session_token

NoRepetition(seq) == \A i, j \in 1..Len(seq) : seq[i] = seq[j] => i = j

\* C1: a non-200 status on a check-in POST is final: sign_in has returned
\* failure right after that attempt (the process is at the inter-account
\* pause), the only sleeps and POSTs of the call are those of the earlier
\* transport failures, and sign_in is not called again for the account in the
\* pass; a non-200 status on the first attempt means exactly one POST.
C1_Non200IsFinal ==
    IsNon200(last_post) =>
        /\ result = "false"
        /\ pc = "pause"
        /\ posts = attempt + 1
        /\ Len(slept) = attempt
        /\ (attempt = 0 => posts = 1 /\ slept = << >>)
        /\ NoRepetition(processed)

C1_Witness ==
    /\ IsNon200(last_post)
    /\ retry_times = MaxRetryTimes
    /\ attempt = 0
    /\ posts = 1
    /\ result = "false"

\* C2: when every attempt of a sign_in call for a valid-token account ended in
\* a transport exception, the call made exactly retry_times attempts, slept
\* retry_delay between consecutive attempts (retry_times - 1 sleeps) and
\* returned failure.
C2_TransportRetries ==
    (/\ InSignIn
     /\ validation.verdict
     /\ last_post.kind = "transport_error"
     /\ pc \notin {"attempt", "retry_sleep"})
    => /\ posts = retry_times
       /\ slept = [i \in 1..(retry_times - 1) |-> retry_delay]
       /\ result = "false"

\* the text of a token is placeholder-shaped: empty, starting with "your", or
\* containing "session_token" in any casing
PlaceholderShaped(text) ==
    \/ text = << >>
    \/ (Len(text) >= 4 /\ <<text[1], text[2], text[3], text[4]>> = YOUR)
    \/ \E i \in 1..Len(text) :
          /\ i + Len(SESSION_TOKEN) - 1 <= Len(text)
          /\ \A k \in 1..Len(SESSION_TOKEN) :
                LowerChar(text[i + k - 1]) = SESSION_TOKEN[k]

\* C3: for an account whose token is placeholder-shaped the validator returns
\* false and no HTTP request (probe GET or check-in POST) is sent for it.
C3_PlaceholderNoRequest ==
    (InSignIn /\ PlaceholderShaped(CurrentToken.text)) =>
        /\ ~validation.verdict
        /\ validation.probe = NoProbe
        /\ posts = 0
        /\ last_post = NoPost
        /\ accounts[idx].name \notin {req_order[i] : i \in 1..Len(req_order)}
        /\ result = "false"

C3_Witness ==
    /\ InSignIn
    /\ CurrentToken.text = TxtSessUpper
    /\ ~validation.verdict
    /\ req_order = << >>
    /\ pc = "pause"

\* C4: for a non-placeholder token with at least two '.' whose middle segment
\* decodes to a JSON object with an integer exp, the validator returns false
\* if exp <= now + 30 minutes and true if exp > now + 30 minutes, without
\* sending the probe.
C4_ExpiryVerdict ==
    (/\ InSignIn
     /\ validation.clock.read
     /\ ~PlaceholderShaped(CurrentToken.text)
     /\ Count(CurrentToken.text, DOT) >= 2
     /\ CurrentToken.payload.kind = "exp")
    => /\ validation.verdict
            = (CurrentToken.payload.exp > validation.clock.now + ThirtyMinutes)
       /\ validation.probe = NoProbe

\* C5: for an account judged valid, sign_in returns success if and only if a
\* check-in POST of the call returned HTTP 200, whatever the body; without a
\* 200 response nothing is reported as success.
C5_SuccessIff200 ==
    (InSignIn /\ validation.verdict) =>
        /\ (result = "true") <=> Is200(last_post)
        /\ (Is200(last_post) => pc = "pause")
        /\ (pc = "pause" => result \in {"true", "false"})
        /\ (retry_times <= 0 => result = "false" /\ posts = 0)

C5_Witness ==
    /\ InSignIn
    /\ validation.verdict
    /\ result = "true"
    /\ classes = <<"already">>
    /\ attempt > 0

\* one of the four already-checked-in phrases occurs in text
PhraseIn(text) ==
    \E i \in 1..Len(text) :
        \/ /\ i + 2 <= Len(text)
           /\ text[i] \in {"Already", "already"}
           /\ text[i + 1] = "checked"
           /\ text[i + 2] = "in"
        \/ /\ i + 3 <= Len(text)
           /\ text[i] \in {"Already", "already"}
           /\ text[i + 1] = "checked"
           /\ text[i + 2] = "in"
           /\ text[i + 3] = "today"

\* C6 as stated: for every HTTP 200 response exactly one classification is
\* logged, and it is "already checked in" if and only if the stringified body
\* (the parsed JSON, or the raw text when JSON parsing fails) contains one of
\* the four phrases; otherwise "check-in successful".
C6_ClassifiedByBody ==
    Is200(last_post) =>
        /\ Len(classes) = 1
        /\ classes[1] =
              (IF PhraseIn(IF last_post.body.json
                           THEN Str(last_post.body.text)
                           ELSE last_post.body.text)
               THEN "already"
               ELSE "successful")

\* C6 amended: for every HTTP 200 response exactly one classification is
\* logged; it is "already checked in" if and only if the body parses as JSON
\* and the stringified parsed JSON contains one of the four phrases; a body
\* that fails JSON parsing is always logged as "check-in successful", whatever
\* its raw text; without a 200 response nothing is classified.
C6_ClassifiedByParsedJson ==
    /\ Is200(last_post) =>
          /\ Len(classes) = 1
          /\ classes[1] =
                (IF last_post.body.json /\ PhraseIn(Str(last_post.body.text))
                 THEN "already"
                 ELSE "successful")
    /\ ~Is200(last_post) => classes = << >>

C6_Witness ==
    /\ Is200(last_post)
    /\ ~last_post.body.json
    /\ PhraseIn(last_post.body.text)
    /\ classes = <<"successful">>

\* C7: an account for which the validator returns false is skipped: sign_in
\* returns failure without a check-in POST, the success count is not
\* incremented, and the loop goes on to the next account of the list (or to
\* the summary after the last one).
C7_InvalidSkipped ==
    [][ /\ (pc = "sign_in" /\ validation'.why # "none" /\ ~validation'.verdict)
            => /\ posts' = 0
               /\ last_post' = NoPost
               /\ result' = "false"
               /\ success_count' = success_count
               /\ pc' = "pause"
        /\ (pc = "pause" /\ InSignIn /\ ~validation.verdict)
            => /\ posts = 0
               /\ IF idx < Len(accounts)
                  THEN pc' = "sign_in" /\ idx' = idx + 1
                  ELSE pc' = "summary"
      ]_vars

C7_Witness ==
    /\ pc = "sign_in"
    /\ idx = 3
    /\ processed = <<accounts[1].name, accounts[2].name>>
    /\ PlaceholderShaped(accounts[2].session_token.text)
    /\ success_count = 1
    /\ req_order = <<accounts[1].name>>

\* the enabled records of the accounts file
EnabledNames ==
    {accounts_file.accounts[i].name :
        i \in {k \in 1..Len(accounts_file.accounts) :
                  accounts_file.accounts[k].enabled}}

\* C8: the summary logged at the end of a pass over a non-empty list reads
\* "success: s/t" with t the number of enabled accounts loaded and s the
\* number of sign_in calls of this pass that returned success, 0 <= s <= t;
\* with 3 enabled accounts, one placeholder token and two successes: 2/3.
C8_Summary ==
    /\ Len(summary) <= 1
    /\ Len(summary) = 1 =>
          /\ summary[1].t = Cardinality(EnabledNames)
          /\ summary[1].t > 0
          /\ summary[1].s = returned_true
          /\ 0 <= summary[1].s
          /\ summary[1].s <= summary[1].t
          /\ Len(processed) = summary[1].t
          /\ (/\ Len(accounts) = 3
              /\ Cardinality({i \in 1..3 :
                     PlaceholderShaped(accounts[i].session_token.text)}) = 1
              /\ returned_true = 2)
             => summary[1] = [s |-> 2, t |-> 3]

C8_Witness ==
    /\ passes = 2
    /\ Len(accounts) = 3
    /\ Cardinality({i \in 1..3 :
           PlaceholderShaped(accounts[i].session_token.text)}) = 1
    /\ returned_true = 2
    /\ summary = <<[s |-> 2, t |-> 3]>>

StrictlyIncreasing(seq) == \A i, j \in 1..Len(seq) : i < j => seq[i] < seq[j]

\* C9: the loaded accounts are the enabled records of the file in file order;
\* in a pass sign_in is called for them in that order, each once (all of them
\* when the summary is reached); HTTP requests are sent only for the account
\* being processed, so the requests of one account never follow a request of
\* a later one; a record with enabled = false is never validated or checked
\* in.
C9_OrderedOnce ==
    /\ StrictlyIncreasing([k \in 1..Len(accounts) |-> accounts[k].name])
    /\ {accounts[k].name : k \in 1..Len(accounts)} \subseteq EnabledNames
    /\ (Len(accounts) > 0 =>
            {accounts[k].name : k \in 1..Len(accounts)} = EnabledNames)
    /\ processed = [k \in 1..Len(processed) |-> accounts[k].name]
    /\ (pc = "sign_in" => Len(processed) = idx - 1)
    /\ (pc \in {"attempt", "retry_sleep", "pause", "crashed"}
            => Len(processed) = idx)
    /\ (pc = "summary" \/ Len(summary) > 0 => Len(processed) = Len(accounts))
    /\ StrictlyIncreasing(req_order)
    /\ \A i \in 1..Len(req_order) :
          \E k \in 1..Len(processed) : processed[k] = req_order[i]
    /\ \A i \in 1..Len(accounts_file.accounts) :
          ~accounts_file.accounts[i].enabled =>
              /\ \A k \in 1..Len(processed) :
                    processed[k] # accounts_file.accounts[i].name
              /\ \A k \in 1..Len(req_order) :
                    req_order[k] # accounts_file.accounts[i].name

C9_Witness ==
    /\ Len(accounts_file.accounts) = 3
    /\ ~accounts_file.accounts[2].enabled
    /\ processed = <<1, 3>>
    /\ req_order = <<1, 3>>
    /\ Len(summary) = 1

\* C10: with an empty account list a pass logs the warning "No accounts
\* found", sends no HTTP request, makes no pause and logs no summary, and
\* with --once the process then exits.
C10_EmptyList ==
    Len(accounts) = 0 =>
        /\ (passes > 0 => warned)
        /\ processed = << >>
        /\ req_order = << >>
        /\ posts = 0
        /\ pauses = 0
        /\ slept = << >>
        /\ summary = << >>
        /\ pc \notin {"sign_in", "attempt", "retry_sleep", "pause", "summary",
                      "crashed"}
        /\ (argv_once /\ passes > 0 => pc = "exit" /\ passes = 1 /\ jobs = 0)

C10_Witness ==
    /\ Len(accounts) = 0
    /\ accounts_file.exists
    /\ argv_once
    /\ warned
    /\ pc = "exit"

\* validation of the current, non-placeholder token met an exception: the
\* probe raised (before or in session.get), or the decoding or the expiry
\* computation raised something other than binascii.Error / JSONDecodeError
ProbeRaised == validation.probe.kind \in {"build_error", "transport_error"}

UnexpectedException ==
    /\ ~PlaceholderShaped(CurrentToken.text)
    /\ Count(CurrentToken.text, DOT) >= 2
    /\ \/ CurrentToken.payload.kind \in {"unicode_error", "scalar"}
       \/ /\ CurrentToken.payload.kind = "exp"
          /\ \/ CurrentToken.payload.exp < MinTimestamp
             \/ CurrentToken.payload.exp > MaxTimestamp

\* C11: the validator is fail-open: when the live probe raises, or an
\* unexpected exception occurs while a non-placeholder token is validated,
\* check_token_validity returns true and sign_in goes on to the check-in
\* attempts of the account (the retry loop is entered; with retry_times >= 1
\* an attempt is made).
C11_FailOpen ==
    (InSignIn /\ (ProbeRaised \/ UnexpectedException)) =>
        /\ validation.verdict
        /\ (ProbeRaised => validation.why \in {"no_jwt_shape", "decode_failed"})
        /\ (retry_times > 0 =>
               \/ pc \in {"attempt", "retry_sleep", "crashed"}
               \/ last_post # NoPost)

C11_Witness ==
    /\ InSignIn
    /\ validation.probe.kind = "transport_error"
    /\ validation.verdict
    /\ Is200(last_post)
    /\ result = "true"

\* C12: no error of a single account ends the pass: every sign_in call ends
\* by returning (success or failure), so that the loop reaches every
\* remaining account and the summary; no exception leaves sign_in.
C12_ErrorsContained ==
    /\ pc # "crashed"
    /\ result # "raised"
    /\ (last_post.kind \in {"build_error", "transport_error", "other_error"}
        /\ pc \notin {"attempt", "retry_sleep"}
            => result = "false" /\ pc = "pause")

\* the first instant after t whose time of day is sign_in_time
NextAtTime(t) ==
    CHOOSE x \in (t + 1)..(t + DayLen) : TimeOfDay(x) = sign_in_time

\* C13: in scheduler mode the first pass is the immediate one, run before the
\* daily job is registered; every later pass is a scheduled one, due at an
\* instant whose time of day is sign_in_time, started no earlier than that
\* instant and less than one poll interval after it, and started only after
\* the pass before it has ended (no overlap); the instant it was due at is
\* the first sign_in_time after the end of the pass before it, so each
\* scheduled day gets one pass and a sign_in_time that went by while a pass
\* was running is not made up for; the idle loop never sleeps past a due run.
C13_DailySchedule ==
    /\ jobs <= 1
    /\ (pc = "main" => passes = 0 /\ jobs = 0)
    /\ (jobs > 0 => passes >= 1)
    /\ Len(pass_log) = passes
    /\ \A i \in 1..Len(pass_log) :
          /\ (i = 1 => pass_log[i].who = "immediate")
          /\ (i < Len(pass_log) => pass_log[i].end # NotYet)
          /\ (pass_log[i].end # NotYet => pass_log[i].at <= pass_log[i].end)
          /\ (i > 1 =>
                /\ pass_log[i].who = "scheduled"
                /\ TimeOfDay(pass_log[i].due) = sign_in_time
                /\ pass_log[i].due <= pass_log[i].at
                /\ pass_log[i].at < pass_log[i].due + PollInterval
                /\ pass_log[i - 1].end <= pass_log[i].at
                /\ pass_log[i].due = NextAtTime(pass_log[i - 1].end))
    /\ (pc = "sched_sleep" => wall_clock < next_run)
    /\ (pc = "sched_loop" => wall_clock < next_run + PollInterval)
    /\ (pc \in {"sched_loop", "sched_sleep"} =>
            next_run = NextAtTime(pass_log[Len(pass_log)].end))

C13_Witness ==
    /\ Len(pass_log) = 3
    /\ pass_log[2].at > pass_log[2].due
    /\ pass_log[3].due = pass_log[2].due + DayLen
    /\ pc = "sched_sleep"

\* C14: with --once the program runs exactly one pass, registers no job and
\* ends; otherwise it runs the immediate pass, registers the job and stays
\* in the scheduler loop, which it leaves only by the interrupt: the process
\* never ends in any other way.
C14_Modes ==
    /\ (argv_once =>
            /\ jobs = 0
            /\ passes <= 1
            /\ pc \notin {"register", "sched_loop", "sched_sleep", "job_done"}
            /\ (pc = "exit" => passes = 1))
    /\ (~argv_once =>
            /\ (pc = "exit" => jobs = 1 /\ passes >= 1)
            /\ (pc \in {"sched_loop", "sched_sleep", "job_done"} => jobs = 1)
            /\ pc # "crashed")

\* the current token lacks the three-segment shape, or its middle segment
\* fails to decode as base64 or to parse as JSON
Undecodable ==
    \/ Count(CurrentToken.text, DOT) < 2
    \/ CurrentToken.payload.kind \in {"b64_error", "json_error", "unicode_error"}

\* C15: for every non-placeholder token that lacks the three-segment shape or
\* whose middle segment fails to decode as base64 or to parse as JSON, the
\* validator makes the live probe (one GET, unless building the request
\* raises) and, when the probe returns a response, accepts the token if and
\* only if the status is 200.
C15_ProbeFallback ==
    (InSignIn /\ ~PlaceholderShaped(CurrentToken.text) /\ Undecodable) =>
        /\ validation.probe # NoProbe
        /\ (validation.probe.kind = "response" =>
               validation.verdict = (validation.probe.status = 200))
        /\ (ProbeSent(validation.probe) =>
               \E i \in 1..Len(req_order) : req_order[i] = accounts[idx].name)

\* C16: an exception of a check-in attempt that is not a transport-level
\* exception (raised while the request is built, or by the POST) makes
\* sign_in return failure at once: the call has returned false, no retry
\* delay was slept after that attempt and no further attempt or POST
\* followed it, even when attempts remain.
C16_OtherErrorFinal ==
    last_post.kind \in {"build_error", "other_error"} =>
        /\ result = "false"
        /\ pc = "pause"
        /\ Len(slept) = attempt
        /\ posts = attempt + (IF PostSent(last_post) THEN 1 ELSE 0)
        /\ (attempt = 0 => slept = << >>)
        /\ NoRepetition(processed)

C16_Witness ==
    /\ last_post.kind = "other_error"
    /\ retry_times = MaxRetryTimes
    /\ attempt = 0
    /\ posts = 1
    /\ slept = << >>
    /\ result = "false"

\* C17 as stated: the token is assessed anew for every check-in POST attempt
\* of the retry loop: when attempt number k (from 0) is about to be made or
\* has been made, the validator has run k + 1 times in this call of sign_in.
C17_ValidatedPerAttempt ==
    (InSignIn /\ (pc = "attempt" \/ last_post # NoPost)) =>
        validations >= attempt + 1

\* C17 amended: the token is assessed once per call of sign_in (one call per
\* account and pass), before the retry loop, and never cached: when sign_in
\* is about to be called no verdict is held, each call runs the validator
\* exactly once, and every attempt of that call, also one made after a
\* transport failure and its retry delay, relies on the accepting verdict of
\* that one run.
C17_ValidatedPerCall ==
    /\ (pc = "sign_in" => validations = 0 /\ validation = NoValidation)
    /\ (InSignIn => validations = 1)
    /\ (pc \in {"attempt", "retry_sleep", "crashed"} \/ last_post # NoPost
            => InSignIn /\ validation.verdict /\ validations = 1)
    /\ Len(processed) >= 1 /\ pc \in {"attempt", "retry_sleep", "pause", "crashed"}
            => InSignIn

C17_Witness ==
    /\ passes = 2
    /\ validations = 1
    /\ attempt = 1
    /\ posts = 2
    /\ Len(slept) = 1
    /\ Is200(last_post)

\* C18 as stated: pauses are made only between consecutive accounts: a pass
\* over n accounts has made n - 1 pauses when it reaches its summary (none
\* after the last account), each of 2 to 5 seconds.
C18_PauseOnlyBetween ==
    /\ (pc = "summary" \/ Len(summary) = 1 => pauses = Len(accounts) - 1)
    /\ last_pause \in {0} \cup (PauseMin..PauseMax)

\* C18 amended: the orchestrator pauses after every account, the last one
\* included: exactly one pause of 2 to 5 seconds follows the processing of
\* each account, so that one pause separates any two consecutive accounts
\* and one more precedes the summary; no pause precedes the first account
\* and none is made anywhere else in the pass.
C18_PauseAfterEach ==
    /\ (pc = "sign_in" => pauses = idx - 1 /\ pauses = Len(processed))
    /\ (pc = "sign_in" /\ idx = 1 => pauses = 0 /\ last_pause = 0)
    /\ (pc = "sign_in" /\ idx > 1 => last_pause \in PauseMin..PauseMax)
    /\ (pc \in {"attempt", "retry_sleep", "pause", "crashed"}
            => pauses = idx - 1 /\ last_pause = 0)
    /\ (pc = "summary"
            => pauses = Len(accounts) /\ last_pause \in PauseMin..PauseMax)
    /\ (Len(summary) = 1 => pauses = Len(accounts))
    /\ pauses <= Len(processed)

C18_Witness ==
    /\ pc = "summary"
    /\ Len(accounts) = 3
    /\ pauses = 3
    /\ last_pause = PauseMax

\* C19: no step of a pass changes the loaded accounts, the proxy pool or the
\* base header set: they keep their values at load, and the headers of every
\* request sent are the base set with the user agent drawn for that request
\* and the cookie of the account being processed, so nothing set for one
\* request is found in the base set or in a later request.
C19_ReadOnly ==
    /\ [](/\ accounts = load_accounts(accounts_file)
          /\ proxies = ProxyPool
          /\ headers = BaseHeaders
          /\ (last_request.sent =>
                /\ last_request.headers.accept = BaseHeaders.accept
                /\ last_request.headers.cookie = Cookie(accounts[idx])
                /\ last_request.headers.user_agent # << >>
                /\ last_request.proxy \in get_random_proxy(ProxyPool)))
    /\ [][/\ accounts' = accounts
          /\ proxies' = proxies
          /\ headers' = headers]_vars

C19_Witness ==
    /\ passes = 2
    /\ idx = 2
    /\ last_request.sent
    /\ last_request.headers.cookie = Cookie(accounts[2])
    /\ req_order = <<accounts[1].name, accounts[2].name>>
    /\ posts = 2
    /\ headers = BaseHeaders

\* a pass is over: sign_in_all_accounts has returned to its caller, or was
\* left by an exception
PassOver == pc \in {"exit", "register", "job_done", "crashed"}

\* C20: every pass ends, provided each HTTP call returns or raises; sign_in
\* is called once per account and pass, each call runs the validator once
\* (at most one probe GET) and sends at most retry_times check-in POSTs, and
\* once a check-in POST got a response, 200 or not, sign_in has returned and
\* no further request is sent for the account.
C20_PassTerminates ==
    /\ [](/\ NoRepetition(processed)
          /\ Len(processed) <= Len(accounts)
          /\ validations <= 1
          /\ (validation.probe # NoProbe => validations = 1)
          /\ posts <= retry_times
          /\ (last_post.kind = "response" =>
                /\ pc = "pause"
                /\ posts = attempt + 1
                /\ result \in {"true", "false"}))
    /\ (pc = "pass" ~> PassOver)

C20_Witness ==
    /\ PassOver
    /\ passes = 2
    /\ Len(processed) = MaxAccounts - 1
    /\ returned_true = 1
    /\ Len(summary) = 1

=============================================================================
